---- MODULE Spec2Model ----
(***************************************************************************)
(* Model of deframe (src/src/lib.rs): Deframer<N>, a fixed-capacity        *)
(* reassembler of delimiter-terminated frames from a chunked byte stream.  *)
(*                                                                         *)
(* One Deframer is modelled.  Its capacity N is chosen at construction,    *)
(* every call of deframe is one atomic step (the code is synchronous and   *)
(* single-owner), and the detector passed to every call is the one of the  *)
(* crate's tests, GET_FRAME_END = |iter| iter.rposition(|&x| x == 0x0A).   *)
(*                                                                         *)
(* Rust arrays and slices are 0-based, TLA+ sequences 1-based: the slice   *)
(* a[lo..hi] is SubSeq(a, lo + 1, hi).  Positions (frame_end_pos,          *)
(* last_valid_pos, end_pos, lengths) keep their Rust values.               *)
(* usize arithmetic: the only subtractions are len - frame_end_pos and     *)
(* len - last_valid_pos with the subtrahend at most len, and the sums stay *)
(* far below 2^64 for slices that fit in memory, so no wrap-around arises. *)
(* An out-of-range slice index panics in Rust; the panic is modelled as    *)
(* the result "Panic", after which the program makes no further call.      *)
(***************************************************************************)
EXTENDS Integers, Sequences, FiniteSets, TLC

(* ---- bounds of the model ---- *)
MaxN == 3
MaxStream == 6

(* ---- program constants ---- *)
FRAME_END == 10

Bytes == {FRAME_END, 1, 2}

VARIABLES
    N,                      \* const generic capacity of this Deframer
    remainder,              \* self.remainder: [u8; N]
    remainder_length,       \* self.remainder_length
    data_frame,             \* the chunk of the last call
    result,                 \* "None" before any call, else "Ok" | "Overflow" | "Panic"
    data,                   \* the array of the last Ok((array, length)), <<>> otherwise
    length,                 \* the length of the last Ok((array, length)), 0 otherwise
    ret,                    \* the source line at which the last call left deframe
    old_remainder,          \* self.remainder when the last call began
    old_remainder_length,   \* self.remainder_length when the last call began
    inputs,                 \* all chunks supplied so far, concatenated
    outputs,                \* all emitted data[0..length] so far, concatenated
    detector_views,         \* what get_frame_end was given, invocation by
                            \* invocation, during the last call
    failed,                 \* some call so far did not return Ok
    stuck,                  \* some call so far returned Overflow at line 92
    skipped                 \* some call so far had a remainder and a chunk whose
                            \* rightmost frame end did not fit beside it

vars == <<N, remainder, remainder_length, data_frame, result, data, length, ret,
          old_remainder, old_remainder_length, inputs, outputs, detector_views,
          failed, stuck, skipped>>

(* ---- arrays and slices ---- *)

\* [0; n]
Zeros(n) == [i \in 1..n |-> 0]

\* &a[lo..hi]
Slice(a, lo, hi) == SubSeq(a, lo + 1, hi)

\* a[lo..lo + src.len()].copy_from_slice(src); callers guard the range
CopyFromSlice(a, lo, src) ==
    [i \in 1..Len(a) |-> IF i > lo /\ i <= lo + Len(src) THEN src[i - lo] ELSE a[i]]

\* all byte sequences of length at most n
SeqsUpTo(n) == UNION {[1..k -> Bytes] : k \in 0..n}

(* ---- the detector ---- *)

\* core::slice::Iter::rposition: consume the view from the back until the
\* predicate holds; the index is counted from the front of the view; the
\* iterator is left holding the elements before the match (empty if none).
RECURSIVE rposition(_, _)
rposition(iter, byte) ==
    IF Len(iter) = 0
    THEN [found |-> FALSE, idx |-> 0, iter |-> <<>>]
    ELSE IF iter[Len(iter)] = byte
         THEN [found |-> TRUE, idx |-> Len(iter) - 1,
               iter |-> SubSeq(iter, 1, Len(iter) - 1)]
         ELSE rposition(SubSeq(iter, 1, Len(iter) - 1), byte)

\* Iterator::position in place of rposition: the leftmost match, consuming
\* the view from the front
RECURSIVE position_from(_, _, _)
position_from(iter, byte, k) ==
    IF k > Len(iter)
    THEN [found |-> FALSE, idx |-> 0, iter |-> <<>>]
    ELSE IF iter[k] = byte
         THEN [found |-> TRUE, idx |-> k - 1,
               iter |-> SubSeq(iter, k + 1, Len(iter))]
         ELSE position_from(iter, byte, k + 1)

GET_FRAME_END_position(iter) == position_from(iter, FRAME_END, 1)

GET_FRAME_END(iter) == rposition(iter, FRAME_END)

\* the frame end taken as the index of the delimiter, not one past it
FrameEndPos_no_increment(r) == IF r.found THEN r.idx ELSE 0

\* if frame_end_result.is_some() { frame_end_result.unwrap() + 1 } else { 0 }

FrameEndPos(r) == IF r.found THEN r.idx + 1 ELSE 0

(* ---- deframe ---- *)

Outcome(res, line, rem, rl, arr, len) ==
    [result |-> res, ret |-> line, remainder |-> rem, remainder_length |-> rl,
     data |-> arr, length |-> len]

\* the new remainder taken from the front of the chunk, not from behind the
\* frame end
NoRemainder_stale(n, rem, chunk) ==
    LET frame_end_pos == FrameEndPos(GET_FRAME_END(chunk))
        rl == Len(chunk) - frame_end_pos
    IN  IF rl > n
        THEN Outcome("Panic", 40, rem, rl, <<>>, 0)
        ELSE LET rem2 == CopyFromSlice(rem, 0, Slice(chunk, 0, rl))
             IN  IF frame_end_pos > n
                 THEN Outcome("Overflow", 45, rem2, rl, <<>>, 0)
                 ELSE Outcome("Ok", 48, rem2, rl,
                              CopyFromSlice(Zeros(n), 0, Slice(chunk, 0, frame_end_pos)),
                              frame_end_pos)

\* lines 30-49: the call found no remainder
NoRemainder(n, rem, chunk) ==
    LET frame_end_pos == FrameEndPos(GET_FRAME_END(chunk))
        rl == Len(chunk) - frame_end_pos
    IN  IF rl > n
        THEN \* line 40: self.remainder[0..rl] is out of range
             Outcome("Panic", 40, rem, rl, <<>>, 0)
        ELSE LET rem2 == CopyFromSlice(rem, 0, Slice(chunk, frame_end_pos, Len(chunk)))
             IN  IF frame_end_pos > n
                 THEN Outcome("Overflow", 45, rem2, rl, <<>>, 0)
                 ELSE Outcome("Ok", 48, rem2, rl,
                              CopyFromSlice(Zeros(n), 0, Slice(chunk, 0, frame_end_pos)),
                              frame_end_pos)

\* the fit search with the loop test off by one: a frame end that fills the
\* capacity exactly is passed over
RECURSIVE FitLoop_ge(_, _, _, _, _)
FitLoop_ge(iter, last_valid_pos, rl, n, views) ==
    IF last_valid_pos + rl >= n
    THEN LET r == GET_FRAME_END(iter)
         IN  IF r.found
             THEN FitLoop_ge(r.iter, r.idx + 1, rl, n, Append(views, iter))
             ELSE [last_valid_pos |-> 0, views |-> Append(views, iter)]
    ELSE [last_valid_pos |-> last_valid_pos, views |-> views]

\* the fit search with an if in place of the while: the detector is asked
\* once and its answer taken whether it fits or not
FitLoop_once(iter, last_valid_pos, rl, n, views) ==
    IF last_valid_pos + rl > n
    THEN LET r == GET_FRAME_END(iter)
         IN  [last_valid_pos |-> IF r.found THEN r.idx + 1 ELSE 0,
              views |-> Append(views, iter)]
    ELSE [last_valid_pos |-> last_valid_pos, views |-> views]

\* lines 52-62: the fit search.  The iterator is created once (line 52) and
\* handed to the detector again and again, so each further invocation sees
\* only what the previous one left; views lists what each invocation was
\* given, in order.
RECURSIVE FitLoop(_, _, _, _, _)
FitLoop(iter, last_valid_pos, rl, n, views) ==
    IF last_valid_pos + rl > n
    THEN LET r == GET_FRAME_END(iter)
         IN  IF r.found
             THEN FitLoop(r.iter, r.idx + 1, rl, n, Append(views, iter))
             ELSE [last_valid_pos |-> 0, views |-> Append(views, iter)]
    ELSE [last_valid_pos |-> last_valid_pos, views |-> views]

FitSearch(chunk, rl, n) == FitLoop(chunk, n, rl, n, <<>>)

\* accumulation that forgets the bytes already held when it sets the length
Accumulate_len_only(n, rem, rl, chunk) ==
    IF Len(chunk) + rl > n
    THEN Outcome("Overflow", 68, rem, rl, <<>>, 0)
    ELSE Outcome("Ok", 72, CopyFromSlice(rem, rl, chunk), Len(chunk), Zeros(n), 0)

\* accumulation whose capacity test is off by one
Accumulate_ge(n, rem, rl, chunk) ==
    IF Len(chunk) + rl >= n
    THEN Outcome("Overflow", 68, rem, rl, <<>>, 0)
    ELSE Outcome("Ok", 72, CopyFromSlice(rem, rl, chunk), Len(chunk) + rl, Zeros(n), 0)

\* accumulation that copies the chunk over the start of the remainder
Accumulate_offset0(n, rem, rl, chunk) ==
    IF Len(chunk) + rl > n
    THEN Outcome("Overflow", 68, rem, rl, <<>>, 0)
    ELSE Outcome("Ok", 72, CopyFromSlice(rem, 0, chunk), Len(chunk) + rl, Zeros(n), 0)

\* lines 66-73: no frame end was accepted, the chunk joins the remainder
Accumulate(n, rem, rl, chunk) ==
    IF Len(chunk) + rl > n
    THEN Outcome("Overflow", 68, rem, rl, <<>>, 0)
    ELSE Outcome("Ok", 72, CopyFromSlice(rem, rl, chunk), Len(chunk) + rl, Zeros(n), 0)

\* emission without the test of line 91: the copy of line 94 goes out of range
Emit_unchecked_remainder(n, rem, rl, chunk, last_valid_pos) ==
    LET appended == CopyFromSlice(Zeros(n), 0, Slice(rem, 0, rl))
        end_pos == rl + last_valid_pos
        rl2 == Len(chunk) - last_valid_pos
    IN  IF rl > n \/ end_pos > n
        THEN Outcome("Overflow", 83, rem, rl, <<>>, 0)
        ELSE IF rl2 > n
             THEN Outcome("Panic", 94, rem, rl2, <<>>, 0)
             ELSE Outcome("Ok", 97,
                          CopyFromSlice(rem, 0, Slice(chunk, last_valid_pos, Len(chunk))),
                          rl2, CopyFromSlice(appended, rl, Slice(chunk, 0, last_valid_pos)),
                          end_pos)

\* emission that sets the new length but leaves the old bytes in the remainder
Emit_keeps_remainder(n, rem, rl, chunk, last_valid_pos) ==
    LET appended == CopyFromSlice(Zeros(n), 0, Slice(rem, 0, rl))
        end_pos == rl + last_valid_pos
        rl2 == Len(chunk) - last_valid_pos
    IN  IF rl > n \/ end_pos > n
        THEN Outcome("Overflow", 83, rem, rl, <<>>, 0)
        ELSE IF rl2 > n
             THEN Outcome("Overflow", 92, rem, rl2, <<>>, 0)
             ELSE Outcome("Ok", 97, rem, rl2,
                          CopyFromSlice(appended, rl, Slice(chunk, 0, last_valid_pos)),
                          end_pos)

\* emission that tests the new remainder length before storing it
Emit_checks_first(n, rem, rl, chunk, last_valid_pos) ==
    IF rl > n
    THEN Outcome("Panic", 77, rem, rl, <<>>, 0)
    ELSE LET appended == CopyFromSlice(Zeros(n), 0, Slice(rem, 0, rl))
             end_pos == rl + last_valid_pos
             rl2 == Len(chunk) - last_valid_pos
         IN  IF end_pos > n
             THEN Outcome("Overflow", 83, rem, rl, <<>>, 0)
             ELSE IF rl2 > n
                  THEN Outcome("Overflow", 92, rem, rl, <<>>, 0)
                  ELSE Outcome("Ok", 97,
                               CopyFromSlice(rem, 0, Slice(chunk, last_valid_pos, Len(chunk))),
                               rl2, CopyFromSlice(appended, rl, Slice(chunk, 0, last_valid_pos)),
                               end_pos)

\* lines 76-97: the remainder and the chunk up to last_valid_pos are emitted
Emit(n, rem, rl, chunk, last_valid_pos) ==
    IF rl > n
    THEN \* line 77: appended[0..rl] is out of range
         Outcome("Panic", 77, rem, rl, <<>>, 0)
    ELSE LET appended == CopyFromSlice(Zeros(n), 0, Slice(rem, 0, rl))
             end_pos == rl + last_valid_pos
         IN  IF end_pos > n
             THEN Outcome("Overflow", 83, rem, rl, <<>>, 0)
             ELSE LET appended2 == CopyFromSlice(appended, rl, Slice(chunk, 0, last_valid_pos))
                      rl2 == Len(chunk) - last_valid_pos
                  IN  IF rl2 > n
                      THEN Outcome("Overflow", 92, rem, rl2, <<>>, 0)
                      ELSE Outcome("Ok", 97,
                                   CopyFromSlice(rem, 0, Slice(chunk, last_valid_pos, Len(chunk))),
                                   rl2, appended2, end_pos)

\* lines 51-98: the call found a remainder
WithRemainder(n, rem, rl, chunk) ==
    LET last_valid_pos == FitSearch(chunk, rl, n).last_valid_pos
    IN  IF last_valid_pos = 0
        THEN Accumulate(n, rem, rl, chunk)
        ELSE Emit(n, rem, rl, chunk, last_valid_pos)

\* lines 26-98: Deframer::deframe(&mut self, data_frame, GET_FRAME_END)
DeframeOutcome(n, rem, rl, chunk) ==
    LET with_remainder == rl # 0
    IN  IF ~with_remainder
        THEN NoRemainder(n, rem, chunk)
        ELSE WithRemainder(n, rem, rl, chunk)

\* the views handed to get_frame_end by one call of deframe: the whole chunk,
\* once, at line 31, or those of the fit search at line 55
DetectorViews(n, rl, chunk) ==
    IF rl = 0 THEN <<chunk>> ELSE FitSearch(chunk, rl, n).views

(* ---- what a chunk offers, stated without the code ---- *)

Max(S) == CHOOSE x \in S : \A y \in S : y <= x

\* the positions one past a delimiter of s
FrameEnds(s) == {p \in 1..Len(s) : s[p] = FRAME_END}

\* those that fit beside a remainder of u bytes in a capacity of n
FittingEnds(s, u, n) == {p \in FrameEnds(s) : u + p <= n}

RightmostDoesNotFit(s, u, n) == FrameEnds(s) # {} /\ u + Max(FrameEnds(s)) > n

\* s cut just after its last delimiter, and what follows that delimiter
UpToLastEnd(s) == IF FrameEnds(s) = {} THEN <<>> ELSE SubSeq(s, 1, Max(FrameEnds(s)))

AfterLastEnd(s) == IF FrameEnds(s) = {} THEN s ELSE SubSeq(s, Max(FrameEnds(s)) + 1, Len(s))

(* ---- the state machine ---- *)

\* lines 19-24: Deframer::<N>::new(), for a capacity N of the caller's choice
Init ==
    /\ N \in 0..MaxN
    /\ remainder = Zeros(N)
    /\ remainder_length = 0
    /\ data_frame = <<>>
    /\ result = "None"
    /\ data = <<>>
    /\ length = 0
    /\ ret = 0
    /\ old_remainder = Zeros(N)
    /\ old_remainder_length = 0
    /\ inputs = <<>>
    /\ outputs = <<>>
    /\ detector_views = <<>>
    /\ failed = FALSE
    /\ stuck = FALSE
    /\ skipped = FALSE

\* one call deframer.deframe(&chunk, GET_FRAME_END)
Deframe(chunk) ==
    /\ result # "Panic"
    /\ LET o == DeframeOutcome(N, remainder, remainder_length, chunk)
       IN  /\ remainder' = o.remainder
           /\ remainder_length' = o.remainder_length
           /\ result' = o.result
           /\ ret' = o.ret
           /\ data' = o.data
           /\ length' = o.length
           /\ outputs' = outputs \o Slice(o.data, 0, o.length)
           /\ failed' = (failed \/ o.result # "Ok")
           /\ stuck' = (stuck \/ o.ret = 92)
    /\ data_frame' = chunk
    /\ old_remainder' = remainder
    /\ old_remainder_length' = remainder_length
    /\ inputs' = inputs \o chunk
    /\ detector_views' = DetectorViews(N, remainder_length, chunk)
    /\ skipped' = (skipped \/ (remainder_length > 0 /\ RightmostDoesNotFit(chunk, remainder_length, N)))
    /\ UNCHANGED N

Next == \E chunk \in SeqsUpTo(MaxStream - Len(inputs)) : Deframe(chunk)

Spec == Init /\ [][Next]_vars

(* ---- the claims ---- *)

\* the state described is the one a call of deframe has just left
Called == result # "None"

\* the remainder as the next call will see it
Remainder == Slice(remainder, 0, remainder_length)

OldRemainder == Slice(old_remainder, 0, old_remainder_length)

\* the frame bytes handed to the caller by the last call
Output == Slice(data, 0, length)

\* C1: between calls the stored remainder length is within 0..N, also after
\* a call that returned Overflow (a call that panicked returns to nobody).
C1_CapacityInvariant ==
    result # "Panic" => (0 <= remainder_length /\ remainder_length <= N)

\* C2: as long as no call has failed, the outputs concatenated are the inputs
\* concatenated and cut just after the last delimiter supplied so far, and
\* the remainder is what follows that delimiter, so it holds no delimiter.
C2_NoDataLoss ==
    (Called /\ ~failed) =>
        /\ outputs = UpToLastEnd(inputs)
        /\ Remainder = AfterLastEnd(inputs)
        /\ FrameEnds(Remainder) = {}

\* C2 amended: the same, as long as moreover no call that found a remainder
\* of u bytes was given a chunk whose rightmost frame end e has u + e > N.
C2_NoDataLossWhileRightmostFits ==
    (Called /\ ~failed /\ ~skipped) =>
        /\ outputs = UpToLastEnd(inputs)
        /\ Remainder = AfterLastEnd(inputs)
        /\ FrameEnds(Remainder) = {}

C2_Witness ==
    /\ Called /\ ~failed /\ ~skipped
    /\ ret = 97
    /\ Cardinality(FrameEnds(inputs)) >= 2
    /\ Len(outputs) > length
    /\ remainder_length > 0

\* C3: a call that finds no remainder and a chunk with a delimiter, where
\* e is one past the rightmost delimiter, e <= N and len - e <= N, returns
\* Ok with length e and output chunk[0..e], and leaves chunk[e..] as the
\* remainder.
C3_RightmostBoundary ==
    (/\ Called
     /\ old_remainder_length = 0
     /\ FrameEnds(data_frame) # {}
     /\ Max(FrameEnds(data_frame)) <= N
     /\ Len(data_frame) - Max(FrameEnds(data_frame)) <= N) =>
        LET e == Max(FrameEnds(data_frame))
        IN  /\ result = "Ok"
            /\ length = e
            /\ Output = Slice(data_frame, 0, e)
            /\ remainder_length = Len(data_frame) - e
            /\ Remainder = Slice(data_frame, e, Len(data_frame))

C3_Witness ==
    /\ Called
    /\ old_remainder_length = 0
    /\ Cardinality(FrameEnds(data_frame)) >= 2
    /\ Max(FrameEnds(data_frame)) <= N
    /\ Len(data_frame) > Max(FrameEnds(data_frame))
    /\ Len(data_frame) - Max(FrameEnds(data_frame)) <= N
    /\ result = "Ok"

\* C4: a call that finds a remainder of u bytes, 0 < u <= N, and a chunk
\* with a frame end that fits (u + p <= N), where p is the largest such and
\* len - p <= N, returns Ok with length u + p and output the old remainder
\* followed by chunk[0..p], and leaves exactly chunk[p..] as the remainder.
C4_EmissionWithRemainder ==
    (/\ Called
     /\ 0 < old_remainder_length /\ old_remainder_length <= N
     /\ FittingEnds(data_frame, old_remainder_length, N) # {}
     /\ Len(data_frame) - Max(FittingEnds(data_frame, old_remainder_length, N)) <= N) =>
        LET u == old_remainder_length
            p == Max(FittingEnds(data_frame, u, N))
        IN  /\ result = "Ok"
            /\ length = u + p
            /\ Output = OldRemainder \o Slice(data_frame, 0, p)
            /\ remainder_length = Len(data_frame) - p
            /\ Remainder = Slice(data_frame, p, Len(data_frame))

\* the largest fitting frame end is not the rightmost delimiter of the chunk
C4_Witness ==
    /\ Called
    /\ 0 < old_remainder_length /\ old_remainder_length <= N
    /\ FittingEnds(data_frame, old_remainder_length, N) # {}
    /\ FittingEnds(data_frame, old_remainder_length, N) # FrameEnds(data_frame)
    /\ Cardinality(FittingEnds(data_frame, old_remainder_length, N)) >= 2
    /\ Len(data_frame) - Max(FittingEnds(data_frame, old_remainder_length, N)) <= N
    /\ result = "Ok"

\* C5: a call whose chunk holds no delimiter, with remainder_length +
\* len <= N, returns Ok with length 0 and leaves the old remainder followed
\* by the whole chunk as the remainder.
C5_Accumulation ==
    (/\ Called
     /\ FrameEnds(data_frame) = {}
     /\ old_remainder_length + Len(data_frame) <= N) =>
        /\ result = "Ok"
        /\ length = 0
        /\ remainder_length = old_remainder_length + Len(data_frame)
        /\ Remainder = OldRemainder \o data_frame

C5_Witness ==
    /\ Called
    /\ FrameEnds(data_frame) = {}
    /\ old_remainder_length > 0
    /\ Len(data_frame) > 0
    /\ old_remainder_length + Len(data_frame) <= N
    /\ result = "Ok"

\* C6: a call that finds no remainder returns Err(Overflow) whenever the
\* chunk up to and including its rightmost delimiter is longer than N, or
\* the bytes after that delimiter (the whole chunk if there is none) are
\* longer than N; no such call aborts instead of returning.
C6_OverflowWithEmptyRemainder ==
    (/\ Called
     /\ old_remainder_length = 0
     /\ \/ Len(UpToLastEnd(data_frame)) > N
        \/ Len(AfterLastEnd(data_frame)) > N) =>
        result = "Overflow"

\* C7: a call that finds a remainder of u bytes, 0 < u <= N, and a chunk
\* with no frame end that fits, returns Err(Overflow) exactly if
\* u + len > N (and Ok otherwise), and on Overflow remainder_length and
\* remainder[0..u] are as they were before the call.
C7_OverflowWhileAccumulating ==
    (/\ Called
     /\ 0 < old_remainder_length /\ old_remainder_length <= N
     /\ FittingEnds(data_frame, old_remainder_length, N) = {}) =>
        /\ result \in {"Ok", "Overflow"}
        /\ result = "Overflow" <=> old_remainder_length + Len(data_frame) > N
        /\ result = "Overflow" =>
              /\ remainder_length = old_remainder_length
              /\ Slice(remainder, 0, old_remainder_length) = OldRemainder

\* the chunk has delimiters, none fits, and the call overflowed
C7_Witness ==
    /\ Called
    /\ 0 < old_remainder_length /\ old_remainder_length < N
    /\ FrameEnds(data_frame) # {}
    /\ FittingEnds(data_frame, old_remainder_length, N) = {}
    /\ result = "Overflow"

\* C8: a call that finds a remainder of u bytes, 0 < u <= N, and a chunk
\* whose rightmost fitting frame end p leaves len - p > N bytes behind it,
\* returns Err(Overflow) and hands no frame bytes to the caller.
C8_OverflowOnNewRemainder ==
    (/\ Called
     /\ 0 < old_remainder_length /\ old_remainder_length <= N
     /\ FittingEnds(data_frame, old_remainder_length, N) # {}
     /\ Len(data_frame) - Max(FittingEnds(data_frame, old_remainder_length, N)) > N) =>
        /\ result = "Overflow"
        /\ data = <<>>
        /\ length = 0

C8_Witness ==
    /\ Called
    /\ 0 < old_remainder_length /\ old_remainder_length <= N
    /\ FittingEnds(data_frame, old_remainder_length, N) # {}
    /\ Len(data_frame) - Max(FittingEnds(data_frame, old_remainder_length, N)) > N
    /\ result = "Overflow"
    /\ ret = 92

\* a delimiter of the last call's chunk was accepted as the boundary: any
\* delimiter when there was no remainder, a fitting one otherwise
Accepted ==
    IF old_remainder_length = 0
    THEN FrameEnds(data_frame) # {}
    ELSE FittingEnds(data_frame, old_remainder_length, N) # {}

\* C9: every call that returns Ok((buf, length)) has 0 <= length <= N, and
\* length = 0 exactly when no delimiter of the chunk was accepted.
C9_OutputLengthBound ==
    result = "Ok" =>
        /\ 0 <= length /\ length <= N
        /\ length = 0 <=> ~Accepted

\* an output that fills the whole capacity, made of remainder and chunk
C9_Witness ==
    /\ result = "Ok"
    /\ N > 0
    /\ length = N
    /\ old_remainder_length > 0
    /\ Accepted

\* C10: if the stream fed so far to the fresh Deframer is a prefix, cut at
\* a chunk boundary, of a sequence S with 1 <= |S| <= N whose only
\* delimiter is its last byte, then every call has succeeded; the last
\* call returned length 0 if the delimiter has not yet come; and if the
\* last call carried the delimiter it returned length |S| and output S
\* and left remainder_length = 0.
C10_ChunkingIndependence ==
    (/\ Called
     /\ Len(inputs) <= N
     /\ FrameEnds(inputs) \subseteq {Len(inputs)}
     /\ FrameEnds(inputs) = {} => Len(inputs) < N) =>
        /\ ~failed
        /\ result = "Ok"
        /\ FrameEnds(inputs) = {} => length = 0
        /\ FrameEnds(data_frame) # {} =>
              /\ length = Len(inputs)
              /\ Output = inputs
              /\ remainder_length = 0

\* the delimiter arrives in a chunk of its own, after the rest of S
C10_Witness ==
    /\ Called
    /\ N >= 3
    /\ Len(inputs) = N
    /\ FrameEnds(inputs) = {N}
    /\ data_frame = <<FRAME_END>>
    /\ old_remainder_length = N - 1
    /\ OldRemainder # <<1, 1>> /\ OldRemainder # <<2, 2>>
    /\ result = "Ok"
    /\ length = N

\* C11: whenever a call returns Err(Overflow), remainder_length and
\* remainder[0..remainder_length] are what they were before the call.
C11_NoMutationOnError ==
    result = "Overflow" =>
        /\ remainder_length = old_remainder_length
        /\ Remainder = OldRemainder

C13_ByteConservation ==
    (Called /\ ~failed) =>
        /\ outputs \o Remainder = inputs
        /\ length > 0 => Output[length] = FRAME_END

\* bytes were emitted by several calls and some are still held, among them
\* a delimiter the fit search passed over
C13_Witness ==
    /\ Called /\ ~failed
    /\ Len(outputs) > length
    /\ length > 0
    /\ remainder_length > 0
    /\ FrameEnds(Remainder) # {}

\* C14: once a call that found a remainder has returned Overflow because
\* the bytes behind the accepted frame end exceed N (line 92), every later
\* call, whatever its chunk, returns Err(Overflow) and emits nothing.
C14_StickyOverflow ==
    [][stuck => (/\ result' = "Overflow"
                 /\ data' = <<>> /\ length' = 0
                 /\ outputs' = outputs)]_vars

\* a later call whose chunk ends in a delimiter that would fit a capacity
\* of N was refused
C14_Witness ==
    /\ stuck
    /\ ret = 68
    /\ data_frame = <<FRAME_END>>
    /\ result = "Overflow"

\* the same for a later call with the empty chunk
C14_WitnessEmptyChunk ==
    /\ stuck
    /\ ret = 68
    /\ data_frame = <<>>

\* C15: in a state with remainder_length <= N, a call with the empty chunk
\* returns Ok with length 0 and leaves remainder_length and
\* remainder[0..remainder_length] as they were, with or without a remainder.
C15_EmptyChunkNoOp ==
    (/\ Called
     /\ data_frame = <<>>
     /\ old_remainder_length <= N) =>
        /\ result = "Ok"
        /\ length = 0
        /\ remainder_length = old_remainder_length
        /\ Remainder = OldRemainder

\* the empty chunk met a remainder that fills the capacity
C15_Witness ==
    /\ Called
    /\ data_frame = <<>>
    /\ N > 0
    /\ old_remainder_length = N
    /\ result = "Ok"

\* the same for the empty chunk meeting no remainder, after earlier calls
C15_WitnessNoRemainder ==
    /\ Called
    /\ data_frame = <<>>
    /\ old_remainder_length = 0
    /\ Len(inputs) > 0
    /\ result = "Ok"

\* C16: no call leaves deframe through the test end_pos > N of line 82:
\* whenever the fit search ends with a position p # 0, remainder_length +
\* p <= N holds, so every Overflow of a call that found a remainder comes
\* from line 68 or line 92, also when remainder_length > N on entry.
C16_CombinedLengthCheckUnreachable ==
    /\ ret # 83
    /\ (old_remainder_length # 0 /\ result = "Overflow") => ret \in {68, 92}
    /\ (old_remainder_length # 0 /\ ret \in {92, 97}) =>
          /\ FittingEnds(data_frame, old_remainder_length, N) # {}
          /\ old_remainder_length + Max(FittingEnds(data_frame, old_remainder_length, N)) <= N

\* the fit search passed over a frame end that did not fit and ended with
\* one that fills the capacity exactly
C16_Witness ==
    /\ Called
    /\ old_remainder_length # 0
    /\ ret = 97
    /\ length = N
    /\ FittingEnds(data_frame, old_remainder_length, N) # FrameEnds(data_frame)

\* the same for a call entered with remainder_length > N
C16_WitnessAfterError ==
    /\ Called
    /\ old_remainder_length > N
    /\ FrameEnds(data_frame) # {}
    /\ ret = 68

====
